---------------------------- MODULE Spec2Model ----------------------------
(***************************************************************************)
(* The process-isolation / remote-call protocol of src/src/simulation.py:  *)
(* one SimulationProducer (the controller-side dispatcher) and the         *)
(* SimulationConsumer process it starts (the worker), talking through      *)
(* three pipes, one semaphore and three events (the _process_io dict).     *)
(*                                                                         *)
(* The controller is one thread: the orchestrator makes one call at a      *)
(* time (a generated method, _wait_for_answer, _check_consumer_alive,      *)
(* close) and cpc is the position inside that call.  The worker is one     *)
(* process and wpc is its position in run / _main_loop /                   *)
(* _consume_command.  Each action is one step whose effect the other       *)
(* process can observe.                                                    *)
(***************************************************************************)
EXTENDS Integers, Sequences, FiniteSets

\* mp.Semaphore(100) at simulation.py:409, scaled down so that the
\* exhausted-capacity cases are reachable.
Capacity == 2

\* Number of commands the orchestrator sends through generated methods.
MaxSends == 3

\* Number of close() calls the orchestrator makes.
MaxCloses == 2

\* SimulationPool(size): the number of dispatchers of the pool
NWorkers == 2

\* how many pool calls the orchestrator makes
MaxPoolCalls == 2

\* how many with-scopes (specific, distribute_args) the orchestrator enters
MaxScopes == 2

\* how many times the orchestrator calls the pool's close()
MaxPoolCloses == 1

VARIABLES
    \* ---- the _process_io channel (simulation.py:405-418)
    cmdPipe,        \* command_pipe: commands written and not yet recv'd
    resPipe,        \* return_value_pipe
    faultPipe,      \* exception_pipe
    sem,            \* value of slot_in_command_queue
    mustQuit,       \* must_quit event
    cmdPipeEmpty,   \* command_pipe_empty event
    simReady,       \* simulaton_ready event
    \* ---- the worker process
    wpc,            \* position in run/_main_loop/_consume_command
    wcur,           \* the command being consumed (NoCmd between commands)
    \* ---- the controller
    cpc,            \* position inside the current call ("idle" between calls)
    cop,            \* the call in progress
    cwait,          \* generated method: _communicate_return_value and blocking
    cnotified,      \* sleeping in Event.wait and notified by Event.set
    closed,         \* SimulationProducer._closed
    \* ---- history (not read by the protocol)
    nextId,         \* sequence number given to the next command sent
    sentRet,        \* ids of the returns-a-value commands sent, in send order
    answers,        \* what _wait_for_answer returned, in return order
    execLog,        \* ids of the commands the worker executed, in order
    wRaisedOn,      \* id of the command the engine raised on (0: none)
    faultsWritten,  \* messages ever written to the fault pipe
    cRaised,        \* SimulationConsumerFailed raised to the orchestrator
    nSendReturned,  \* _send_command calls that returned normally
    nDequeued,      \* commands the worker recv'd
    killed,         \* the worker process was killed from outside
    cStartedDead,   \* the current call began after the faulted worker exited
    closeSigId,     \* id of the signal command sent by close (0: none)
    closePending,   \* commands in the command pipe when close was called
    closeDone,      \* a close() call ran to its end
    nCloseCalls     \* close() calls made

chan == <<cmdPipe, resPipe, faultPipe, sem, mustQuit, cmdPipeEmpty, simReady>>
work == <<wpc, wcur>>
ctl  == <<cpc, cop, cwait, cnotified, closed>>
hist == <<nextId, sentRet, answers, execLog, wRaisedOn, faultsWritten, cRaised,
          nSendReturned, nDequeued, killed, cStartedDead, closeSigId,
          closePending, closeDone, nCloseCalls>>

\* The pool (SimulationPool): NWorkers dispatchers, each with its own
\* worker process and channels, indexed 0..NWorkers-1 as in _producers.
VARIABLES
    pCmd,        \* [w] command pipe of dispatcher w
    pRes,        \* [w] results pipe
    pFault,      \* [w] fault pipe
    pSem,        \* [w] slot_in_command_queue
    pQuit,       \* [w] must_quit
    pEmpty,      \* [w] command_pipe_empty
    pwpc,        \* [w] position of worker w: loop, exec, sleep, dead
    pwcur,       \* [w] the command worker w holds
    pClosed,     \* [w] _producers[w]._closed
    pSel,        \* _active_producers_indices (a list)
    pMode,       \* _distribute_args_mode
    pStack,      \* the with-scopes the orchestrator is inside, innermost last
    ppc,         \* position of the orchestrator in the pool's code
    pk,          \* loop position (send, wait: index into the active list;
                 \*                close: worker index)
    pCall,       \* the pool call in progress
    pNotified,   \* the Event.wait the controller sleeps in has been notified
    \* history
    pNextCall,   \* number of the next pool call
    pSendLog,    \* every command sent through the pool, in order
    pDone,       \* every pool call (close included) that ended, and how
    pCloseTried, \* the dispatchers whose close() the pool's close has called
    pCloseCalls, \* how many times the pool's close() was called
    pExits       \* every scope exit: the frame, how it was left, what it left

pchan == <<pCmd, pRes, pFault, pSem, pQuit, pEmpty>>
pwork == <<pwpc, pwcur>>
psel  == <<pSel, pMode, pStack>>
pctl  == <<ppc, pk, pCall, pNotified, pClosed>>
phist == <<pNextCall, pSendLog, pDone, pCloseTried, pCloseCalls, pExits>>
pool  == <<pchan, pwork, psel, pctl, phist>>

vars == <<chan, work, ctl, hist, pool>>

----------------------------------------------------------------------------
(* Commands and method metadata *)

\* The methods the orchestrator calls: engine methods of SimulationConsumer,
\* one that is not decorated and one decorated with @communicate_return_value.
\* signal_command_pipe_empty and good_bye are sent by close only.
EngineMethods == {"step_sim", "get_simulation_timestep"}

\* method._communicate_return_value after default_dont_communicate_return
CommunicateReturnValue(fn) == fn = "get_simulation_timestep"

NoCmd == [fn |-> "none", id |-> 0]

\* The value the engine returns for a command: opaque, tagged by the command.
ResultOf(cmd) == [val |-> cmd.id]

\* Connection.send / Connection.recv on an ordered pipe
PipeSend(pipe, msg) == Append(pipe, msg)

\* Variant of PipeHead: recv hands over the newest message.
PipeLast(pipe) == pipe[Len(pipe)]

PipeHead(pipe) == Head(pipe)
PipeRest(pipe) == Tail(pipe)

\* Process.is_alive()
IsAlive == wpc # "dead"

\* the worker exited after the engine raised and the fault was written
ExitedFaulted == wpc = "dead" /\ faultsWritten > 0

----------------------------------------------------------------------------
(* The pool's values *)

\* range(size): the indices of _producers
Workers == 0..(NWorkers - 1)

\* list(range(size)), the selection __init__ sets
AllIndices == [i \in 1..NWorkers |-> i - 1]

\* a list an orchestrator may hand to specific(): all workers, last first
Descending == [i \in 1..NWorkers |-> NWorkers - i]

\* The generated pool methods the orchestrator calls: apply_action(actions)
\* communicates its return value, set_joint_forces(forces) does not.
PoolMethods == {"apply_action", "set_joint_forces"}
PoolCommunicates(fn) == fn = "apply_action"

\* The argument object the orchestrator passes to pool call number c;
\* elem = -1 stands for the object as a whole, elem = i for its element [i].
UserArg(c) == [call |-> c, elem |-> -1]
NoArg == [call |-> 0, elem |-> -1]

PNoCmd == [fn |-> "none", call |-> 0, arg |-> NoArg]
NoCall == [id |-> 0, fn |-> "none", arg |-> NoArg, act |-> <<>>, got |-> <<>>]

\* what worker w's engine returns for a command
ResultBy(w, cmd) == [by |-> w, call |-> cmd.call]

\* SimulationPool.__init__ has returned: every dispatcher is constructed,
\* every worker has set simulaton_ready (wait_consumer_ready) and is in its
\* main loop; all workers are selected, arguments are broadcast.
PoolInit ==
    /\ pCmd = [w \in Workers |-> <<>>]
    /\ pRes = [w \in Workers |-> <<>>]
    /\ pFault = [w \in Workers |-> <<>>]
    /\ pSem = [w \in Workers |-> Capacity]
    /\ pQuit = [w \in Workers |-> FALSE]
    /\ pEmpty = [w \in Workers |-> FALSE]
    /\ pwpc = [w \in Workers |-> "loop"]
    /\ pwcur = [w \in Workers |-> PNoCmd]
    /\ pClosed = [w \in Workers |-> FALSE]
    /\ pSel = AllIndices
    /\ pMode = FALSE
    /\ pStack = <<>>
    /\ ppc = "idle" /\ pk = 0 /\ pCall = NoCall /\ pNotified = FALSE
    /\ pNextCall = 1 /\ pSendLog = <<>> /\ pDone = <<>>
    /\ pCloseTried = {} /\ pCloseCalls = 0 /\ pExits = <<>>

----------------------------------------------------------------------------
Init ==
    /\ cmdPipe = <<>> /\ resPipe = <<>> /\ faultPipe = <<>>
    /\ sem = Capacity
    /\ mustQuit = FALSE /\ cmdPipeEmpty = FALSE /\ simReady = FALSE
    /\ wpc = "launch" /\ wcur = NoCmd
    /\ cpc = "idle" /\ cop = "none" /\ cwait = FALSE /\ cnotified = FALSE
    /\ closed = FALSE
    /\ nextId = 1 /\ sentRet = <<>> /\ answers = <<>> /\ execLog = <<>>
    /\ wRaisedOn = 0 /\ faultsWritten = 0 /\ cRaised = <<>>
    /\ nSendReturned = 0 /\ nDequeued = 0 /\ killed = FALSE
    /\ cStartedDead = FALSE /\ closeSigId = 0 /\ closePending = 0
    /\ closeDone = FALSE /\ nCloseCalls = 0
    /\ PoolInit


----------------------------------------------------------------------------
(* The worker process: run, _main_loop, _consume_command *)

\* run(): PyRep is launched, simulaton_ready is set, _main_loop is entered.
Launch ==
    /\ wpc = "launch"
    /\ simReady' = TRUE
    /\ wpc' = "loop"
    /\ UNCHANGED <<cmdPipe, resPipe, faultPipe, sem, mustQuit, cmdPipeEmpty,
                   wcur, ctl, hist>>
    /\ UNCHANGED pool

\* _main_loop: "while success and not must_quit.is_set()".  success is
\* False only on the way out of WriteFault, which goes to "shutdown" itself.
LoopTest ==
    /\ wpc = "loop"
    /\ wpc' = IF mustQuit THEN "shutdown" ELSE "recv"
    /\ UNCHANGED <<chan, wcur, ctl, hist>>
    /\ UNCHANGED pool

\* _consume_command: command = command_pipe_out.recv()  (blocks while empty)
Recv ==
    /\ wpc = "recv"
    /\ cmdPipe # <<>>
    /\ wcur' = PipeHead(cmdPipe)
    /\ cmdPipe' = PipeRest(cmdPipe)
    /\ wpc' = "release"
    /\ nDequeued' = nDequeued + 1
    /\ UNCHANGED <<resPipe, faultPipe, sem, mustQuit, cmdPipeEmpty, simReady,
                   ctl, nextId, sentRet, answers, execLog, wRaisedOn,
                   faultsWritten, cRaised, nSendReturned, killed,
                   cStartedDead,
                   closeSigId, closePending, closeDone, nCloseCalls>>
    /\ UNCHANGED pool

\* _consume_command: slot_in_command_queue.release()
Release ==
    /\ wpc = "release"
    /\ sem' = sem + 1
    /\ wpc' = "exec"
    /\ UNCHANGED <<cmdPipe, resPipe, faultPipe, mustQuit, cmdPipeEmpty,
                   simReady, wcur, ctl, hist>>
    /\ UNCHANGED pool

\* Variant of AfterExec: every method's return value is communicated.
AfterExecAlwaysReply(cmd) == "reply"

\* Where the worker goes after command[0](self, ...) returned normally.
AfterExec(cmd) == IF CommunicateReturnValue(cmd.fn) THEN "reply" ELSE "loop"

\* command[0](self, *command[1], **command[2]) for an engine method that
\* returns normally.
ExecOk ==
    /\ wpc = "exec"
    /\ wcur.fn \in EngineMethods
    /\ execLog' = Append(execLog, wcur.id)
    /\ wpc' = AfterExec(wcur)
    /\ wcur' = IF AfterExec(wcur) = "loop" THEN NoCmd ELSE wcur
    /\ UNCHANGED <<chan, ctl, nextId, sentRet, answers, wRaisedOn,
                   faultsWritten, cRaised, nSendReturned, nDequeued, killed,
                   cStartedDead,
                   closeSigId, closePending, closeDone, nCloseCalls>>
    /\ UNCHANGED pool

\* ... for an engine method in which the engine raises an Exception:
\* control goes to the except clause.
ExecRaise ==
    /\ wpc = "exec"
    /\ wcur.fn \in EngineMethods
    /\ execLog' = Append(execLog, wcur.id)
    /\ wRaisedOn' = wcur.id
    /\ wpc' = "fault"
    /\ UNCHANGED <<chan, wcur, ctl, nextId, sentRet, answers,
                   faultsWritten, cRaised, nSendReturned, nDequeued, killed,
                   cStartedDead,
                   closeSigId, closePending, closeDone, nCloseCalls>>
    /\ UNCHANGED pool

\* _communicate_return_value(ret): return_value_pipe_in.send(value)
Reply ==
    /\ wpc = "reply"
    /\ resPipe' = PipeSend(resPipe, ResultOf(wcur))
    /\ wpc' = "loop"
    /\ wcur' = NoCmd
    /\ UNCHANGED <<cmdPipe, faultPipe, sem, mustQuit, cmdPipeEmpty, simReady,
                   ctl, hist>>
    /\ UNCHANGED pool

\* Variant of AfterFault: success is left True and the loop goes on.
AfterFaultLoop == "loop"

\* Where _consume_command's except clause leaves the worker: success = False
\* ends the while loop of _main_loop.
AfterFault == "shutdown"

\* except Exception as e: exception_pipe_in.send((e, traceback))
WriteFault ==
    /\ wpc = "fault"
    /\ faultPipe' = PipeSend(faultPipe, [exc |-> wcur.id])
    /\ faultsWritten' = faultsWritten + 1
    /\ wpc' = AfterFault
    /\ wcur' = NoCmd
    /\ UNCHANGED <<cmdPipe, resPipe, sem, mustQuit, cmdPipeEmpty, simReady,
                   ctl, nextId, sentRet, answers, execLog, wRaisedOn,
                   cRaised, nSendReturned, nDequeued, killed, cStartedDead,
                   closeSigId, closePending, closeDone, nCloseCalls>>
    /\ UNCHANGED pool

\* signal_command_pipe_empty: command_pipe_empty.set().  Event.set notifies
\* whoever sleeps in Event.wait.
SignalSet ==
    /\ wpc = "exec"
    /\ wcur.fn = "signal_command_pipe_empty"
    /\ cmdPipeEmpty' = TRUE
    /\ cnotified' = (cnotified \/ cpc = "ev_sleep")
    /\ wpc' = "sleep"
    /\ UNCHANGED <<cmdPipe, resPipe, faultPipe, sem, mustQuit, simReady,
                   wcur, cpc, cop, cwait, closed, hist>>
    /\ UNCHANGED pool

\* signal_command_pipe_empty: time.sleep(0.1) is over;
\* command_pipe_empty.clear()
SignalClear ==
    /\ wpc = "sleep"
    /\ cmdPipeEmpty' = FALSE
    /\ execLog' = Append(execLog, wcur.id)
    /\ wpc' = "loop"
    /\ wcur' = NoCmd
    /\ UNCHANGED <<cmdPipe, resPipe, faultPipe, sem, mustQuit, simReady,
                   ctl, nextId, sentRet, answers, wRaisedOn,
                   faultsWritten, cRaised, nSendReturned, nDequeued, killed,
                   cStartedDead,
                   closeSigId, closePending, closeDone, nCloseCalls>>
    /\ UNCHANGED pool

\* good_bye: pass
GoodBye ==
    /\ wpc = "exec"
    /\ wcur.fn = "good_bye"
    /\ execLog' = Append(execLog, wcur.id)
    /\ wpc' = "loop"
    /\ wcur' = NoCmd
    /\ UNCHANGED <<chan, ctl, nextId, sentRet, answers, wRaisedOn,
                   faultsWritten, cRaised, nSendReturned, nDequeued, killed,
                   cStartedDead,
                   closeSigId, closePending, closeDone, nCloseCalls>>
    /\ UNCHANGED pool

\* _main_loop after the while: pyrep.shutdown(), _close_pipes(), and the
\* process exits.  The controller keeps its own handles of all three pipes,
\* so what was written stays readable and no end-of-file is ever seen.
Shutdown ==
    /\ wpc = "shutdown"
    /\ wpc' = "dead"
    /\ UNCHANGED <<chan, wcur, ctl, hist>>
    /\ UNCHANGED pool

\* The worker process is killed from outside (Process.kill / terminate, a
\* signal): it stops wherever it is, writing nothing.
Kill ==
    /\ wpc # "dead"
    /\ ~killed
    /\ wpc' = "dead"
    /\ wcur' = NoCmd
    /\ killed' = TRUE
    /\ UNCHANGED <<chan, ctl, nextId, sentRet, answers, execLog, wRaisedOn,
                   faultsWritten, cRaised, nSendReturned, nDequeued,
                   cStartedDead,
                   closeSigId, closePending, closeDone, nCloseCalls>>
    /\ UNCHANGED pool

WorkerStep ==
    \/ Launch \/ LoopTest \/ Recv \/ Release \/ ExecOk \/ ExecRaise
    \/ Reply \/ WriteFault \/ SignalSet \/ SignalClear \/ GoodBye
    \/ Shutdown

----------------------------------------------------------------------------
(* The controller: SimulationProducer *)

\* A call returns, normally or by an exception, to the orchestrator.
BackToIdle ==
    /\ cpc' = "idle"
    /\ cop' = "none"
    /\ cwait' = FALSE
    /\ cStartedDead' = FALSE

\* A generated method (c2p_convertion_function.new_method) is called and
\* _send_command writes the command: command_pipe_in.send((function, args,
\* kwargs)).  The write comes before the semaphore is touched.
SendCommand(fn, blocking) ==
    /\ cpc = "idle"
    /\ nextId <= MaxSends
    /\ cmdPipe' = PipeSend(cmdPipe, [fn |-> fn, id |-> nextId])
    /\ nextId' = nextId + 1
    /\ sentRet' = IF CommunicateReturnValue(fn)
                  THEN Append(sentRet, nextId) ELSE sentRet
    /\ cpc' = "acquire"
    /\ cop' = "send"
    /\ cwait' = (CommunicateReturnValue(fn) /\ blocking)
    /\ cStartedDead' = ExitedFaulted
    /\ UNCHANGED <<resPipe, faultPipe, sem, mustQuit, cmdPipeEmpty, simReady,
                   work, cnotified, closed, answers, execLog, wRaisedOn,
                   faultsWritten, cRaised, nSendReturned, nDequeued, killed,
                   closeSigId, closePending, closeDone, nCloseCalls>>
    /\ UNCHANGED pool

\* Variant of CanAcquire: the acquire never fails.
CanAcquireAlways(value) == TRUE

\* semaphore.acquire(block=False, timeout=0.1) succeeds iff the value is
\* positive.
CanAcquire(value) == value > 0

\* _send_command: the acquire succeeds and _send_command returns, to
\* new_method (which waits for the answer when asked to) or into close.
AcquireOk ==
    /\ cpc = "acquire"
    /\ CanAcquire(sem)
    /\ sem' = sem - 1
    /\ nSendReturned' = nSendReturned + 1
    /\ IF cop = "send" /\ ~cwait
       THEN BackToIdle
       ELSE /\ cpc' = CASE cop = "send" -> "poll"
                        [] cop = "close_signal" -> "ev_wait"
                        [] OTHER -> "close_mark"
            /\ cop' = IF cop = "send" THEN "wait" ELSE cop
            /\ UNCHANGED <<cwait, cStartedDead>>
    /\ UNCHANGED <<cmdPipe, resPipe, faultPipe, mustQuit, cmdPipeEmpty,
                   simReady, work, cnotified, closed, nextId, sentRet,
                   answers, execLog, wRaisedOn, faultsWritten, cRaised,
                   nDequeued, killed,
                   closeSigId, closePending, closeDone, nCloseCalls>>
    /\ UNCHANGED pool

\* _send_command: the acquire fails, the loop body checks the worker.
AcquireFail ==
    /\ cpc = "acquire"
    /\ ~CanAcquire(sem)
    /\ cpc' = "check_alive"
    /\ UNCHANGED <<chan, work, cop, cwait, cnotified, closed, hist>>
    /\ UNCHANGED pool

\* The orchestrator calls _check_consumer_alive itself.
CheckAliveCall ==
    /\ cpc = "idle"
    /\ cpc' = "check_alive"
    /\ cop' = "check"
    /\ cStartedDead' = ExitedFaulted
    /\ UNCHANGED <<chan, work, cwait, cnotified, closed, nextId, sentRet,
                   answers, execLog, wRaisedOn, faultsWritten, cRaised,
                   nSendReturned, nDequeued, killed,
                   closeSigId, closePending, closeDone,
                   nCloseCalls>>
    /\ UNCHANGED pool

\* _check_consumer_alive: the worker is alive, True is returned to the loop
\* that asked (or to the orchestrator).
CheckAliveTrue ==
    /\ cpc = "check_alive"
    /\ IsAlive
    /\ IF cop = "check"
       THEN BackToIdle
       ELSE /\ cpc' = IF cop = "wait" THEN "poll" ELSE "acquire"
            /\ UNCHANGED <<cop, cwait, cStartedDead>>
    /\ UNCHANGED <<chan, work, cnotified, closed, nextId, sentRet, answers,
                   execLog, wRaisedOn, faultsWritten, cRaised, nSendReturned,
                   nDequeued, killed,
                   closeSigId, closePending, closeDone, nCloseCalls>>
    /\ UNCHANGED pool

\* Variant of CheckAliveDead: _closed is not set.
CheckAliveDeadKeepsOpen ==
    /\ cpc = "check_alive"
    /\ ~IsAlive
    /\ cpc' = "recv_fault"
    /\ UNCHANGED <<chan, work, cop, cwait, cnotified, closed, hist>>
    /\ UNCHANGED pool

\* _check_consumer_alive: the worker is not alive; join, _closed = True,
\* and on to exception_pipe_out.recv().
CheckAliveDead ==
    /\ cpc = "check_alive"
    /\ ~IsAlive
    /\ closed' = TRUE
    /\ cpc' = "recv_fault"
    /\ UNCHANGED <<chan, work, cop, cwait, cnotified, hist>>
    /\ UNCHANGED pool

\* What exception_pipe_out.recv() leaves in the fault pipe.
AfterFaultRecv(pipe) == PipeRest(pipe)

\* _check_consumer_alive: exc, traceback = exception_pipe_out.recv() (blocks
\* while the pipe is empty); raise SimulationConsumerFailed(exc, traceback).
\* The exception leaves whatever call was in progress.
RecvFault ==
    /\ cpc = "recv_fault"
    /\ faultPipe # <<>>
    /\ cRaised' = Append(cRaised, PipeHead(faultPipe).exc)
    /\ faultPipe' = AfterFaultRecv(faultPipe)
    /\ BackToIdle
    /\ UNCHANGED <<cmdPipe, resPipe, sem, mustQuit, cmdPipeEmpty, simReady,
                   work, cnotified, closed, nextId, sentRet, answers,
                   execLog, wRaisedOn, faultsWritten, nSendReturned,
                   nDequeued, killed,
                   closeSigId, closePending, closeDone, nCloseCalls>>
    /\ UNCHANGED pool

\* The orchestrator calls _wait_for_answer for a result it has not collected.
WaitCall ==
    /\ cpc = "idle"
    /\ Len(sentRet) > Len(answers)
    /\ cpc' = "poll"
    /\ cop' = "wait"
    /\ cStartedDead' = ExitedFaulted
    /\ UNCHANGED <<chan, work, cwait, cnotified, closed, nextId, sentRet,
                   answers, execLog, wRaisedOn, faultsWritten, cRaised,
                   nSendReturned, nDequeued, killed,
                   closeSigId, closePending, closeDone,
                   nCloseCalls>>
    /\ UNCHANGED pool

\* Variant of AnswerOf: the newest result is taken instead of the oldest.
AnswerOfLast(pipe) == pipe[Len(pipe)]

\* The message return_value_pipe_out.recv() takes from the results pipe.
AnswerOf(pipe) == PipeHead(pipe)

\* _wait_for_answer: poll(1) finds a result; recv it and return it.
PollAnswer ==
    /\ cpc = "poll"
    /\ resPipe # <<>>
    /\ answers' = Append(answers, [res |-> AnswerOf(resPipe),
                                   sent |-> Len(sentRet)])
    /\ resPipe' = PipeRest(resPipe)
    /\ BackToIdle
    /\ UNCHANGED <<cmdPipe, faultPipe, sem, mustQuit, cmdPipeEmpty, simReady,
                   work, cnotified, closed, nextId, sentRet, execLog,
                   wRaisedOn, faultsWritten, cRaised, nSendReturned,
                   nDequeued, killed,
                   closeSigId, closePending, closeDone, nCloseCalls>>
    /\ UNCHANGED pool

\* _wait_for_answer: poll(1) times out; the loop body checks the worker.
PollTimeout ==
    /\ cpc = "poll"
    /\ resPipe = <<>>
    /\ cpc' = "check_alive"
    /\ UNCHANGED <<chan, work, cop, cwait, cnotified, closed, hist>>
    /\ UNCHANGED pool

----------------------------------------------------------------------------
(* close and the handshake *)

\* Variant of AlreadyClosed: close does not look at _closed.
NeverClosed == FALSE

\* close: "if not self._closed" fails
AlreadyClosed == closed

\* close on a closed dispatcher: the else branch prints and returns.
CloseNoop ==
    /\ cpc = "idle"
    /\ nCloseCalls < MaxCloses
    /\ AlreadyClosed
    /\ nCloseCalls' = nCloseCalls + 1
    /\ UNCHANGED <<chan, work, ctl, nextId, sentRet, answers, execLog,
                   wRaisedOn, faultsWritten, cRaised, nSendReturned,
                   nDequeued, killed, cStartedDead,
                   closeSigId, closePending, closeDone>>
    /\ UNCHANGED pool

\* close, the worker is alive: _wait_command_pipe_empty sends
\* signal_command_pipe_empty through _send_command.
CloseStart ==
    /\ cpc = "idle"
    /\ nCloseCalls < MaxCloses
    /\ ~AlreadyClosed
    /\ IsAlive
    /\ nCloseCalls' = nCloseCalls + 1
    /\ cmdPipe' = PipeSend(cmdPipe, [fn |-> "signal_command_pipe_empty",
                                     id |-> nextId])
    /\ closeSigId' = nextId
    /\ closePending' = Len(cmdPipe)
    /\ nextId' = nextId + 1
    /\ cpc' = "acquire"
    /\ cop' = "close_signal"
    /\ cStartedDead' = ExitedFaulted
    /\ UNCHANGED <<resPipe, faultPipe, sem, mustQuit, cmdPipeEmpty, simReady,
                   work, cwait, cnotified, closed, sentRet, answers, execLog,
                   wRaisedOn, faultsWritten, cRaised, nSendReturned,
                   nDequeued, killed, closeDone>>
    /\ UNCHANGED pool

\* close, the worker is not alive: _closed = True, then join.
CloseDeadWorker ==
    /\ cpc = "idle"
    /\ nCloseCalls < MaxCloses
    /\ ~AlreadyClosed
    /\ ~IsAlive
    /\ nCloseCalls' = nCloseCalls + 1
    /\ closed' = TRUE
    /\ cpc' = "join"
    /\ cop' = "close"
    /\ cStartedDead' = ExitedFaulted
    /\ UNCHANGED <<chan, work, cwait, cnotified, nextId, sentRet, answers,
                   execLog, wRaisedOn, faultsWritten, cRaised, nSendReturned,
                   nDequeued, killed, closeSigId, closePending, closeDone>>
    /\ UNCHANGED pool

\* Variant of OnEventWait: close does not wait for the flag.
OnEventWaitNoWait(flag) == "set_quit"

\* What Event.wait() does on entry: it returns at once when the flag is set,
\* and sleeps on the event's condition otherwise.
OnEventWait(flag) == IF flag THEN "set_quit" ELSE "ev_sleep"

\* _wait_command_pipe_empty: command_pipe_empty.wait()
EvWait ==
    /\ cpc = "ev_wait"
    /\ cpc' = OnEventWait(cmdPipeEmpty)
    /\ cnotified' = FALSE
    /\ UNCHANGED <<chan, work, cop, cwait, closed, hist>>
    /\ UNCHANGED pool

\* Event.wait(): the sleeper is notified by Event.set and returns, whatever
\* the flag is by then (the return value is not looked at).
EvWake ==
    /\ cpc = "ev_sleep"
    /\ cnotified
    /\ cnotified' = FALSE
    /\ cpc' = "set_quit"
    /\ UNCHANGED <<chan, work, cop, cwait, closed, hist>>
    /\ UNCHANGED pool

\* close: must_quit.set()
SetMustQuit ==
    /\ cpc = "set_quit"
    /\ mustQuit' = TRUE
    /\ cpc' = "good_bye"
    /\ UNCHANGED <<cmdPipe, resPipe, faultPipe, sem, cmdPipeEmpty, simReady,
                   work, cop, cwait, cnotified, closed, hist>>
    /\ UNCHANGED pool

\* Variant of SendGoodBye: close goes on to join without the farewell command.
SkipGoodBye ==
    /\ cpc = "good_bye"
    /\ cpc' = "close_mark"
    /\ UNCHANGED <<chan, work, cop, cwait, cnotified, closed, hist>>
    /\ UNCHANGED pool

\* close: self.good_bye(), the generated method: _send_command writes it.
SendGoodBye ==
    /\ cpc = "good_bye"
    /\ cmdPipe' = PipeSend(cmdPipe, [fn |-> "good_bye", id |-> nextId])
    /\ nextId' = nextId + 1
    /\ cpc' = "acquire"
    /\ cop' = "close_bye"
    /\ UNCHANGED <<resPipe, faultPipe, sem, mustQuit, cmdPipeEmpty, simReady,
                   work, cwait, cnotified, closed, sentRet, answers, execLog,
                   wRaisedOn, faultsWritten, cRaised, nSendReturned,
                   nDequeued, killed, cStartedDead,
                   closeSigId, closePending, closeDone,
                   nCloseCalls>>
    /\ UNCHANGED pool

\* close: self._closed = True
CloseMark ==
    /\ cpc = "close_mark"
    /\ closed' = TRUE
    /\ cpc' = "join"
    /\ UNCHANGED <<chan, work, cop, cwait, cnotified, hist>>
    /\ UNCHANGED pool

\* close: self._consumer.join() returns once the process has exited, and
\* close returns.
Join ==
    /\ cpc = "join"
    /\ ~IsAlive
    /\ closeDone' = TRUE
    /\ BackToIdle
    /\ UNCHANGED <<chan, work, cnotified, closed, nextId, sentRet, answers,
                   execLog, wRaisedOn, faultsWritten, cRaised, nSendReturned,
                   nDequeued, killed, closeSigId, closePending, nCloseCalls>>
    /\ UNCHANGED pool

ControllerStep ==
    \/ \E fn \in EngineMethods, blocking \in BOOLEAN : SendCommand(fn, blocking)
    \/ AcquireOk \/ AcquireFail
    \/ CheckAliveCall \/ CheckAliveTrue \/ CheckAliveDead \/ RecvFault
    \/ WaitCall \/ PollAnswer \/ PollTimeout
    \/ CloseNoop \/ CloseStart \/ CloseDeadWorker
    \/ EvWait \/ EvWake \/ SetMustQuit \/ SendGoodBye \/ CloseMark \/ Join

----------------------------------------------------------------------------
Next == WorkerStep \/ Kill \/ ControllerStep

Spec == Init /\ [][Next]_vars

\* Both processes keep running: the worker process is scheduled whenever it
\* can step (it is not blocked in recv), and the controller goes on with the
\* call it is in whenever that call is not blocked.  Nothing obliges the
\* outside world to kill the worker.
FairSpec == Spec /\ WF_vars(WorkerStep) /\ WF_vars(ControllerStep)

----------------------------------------------------------------------------
(* The pool's workers: each runs the same _main_loop on its own channels.
   The loop test that finds must_quit clear, the recv and the release that
   follows it are taken as one step, and so are the write of the fault and
   the exit of the loop. *)

PAlive(w) == pwpc[w] # "dead"

\* _main_loop: "while success and not must_quit.is_set()" finds must_quit
\* set: shutdown, _close_pipes, the process ends.
PQuitExit(w) ==
    /\ pwpc[w] = "loop"
    /\ pQuit[w]
    /\ pwpc' = [pwpc EXCEPT ![w] = "dead"]
    /\ UNCHANGED <<pchan, pwcur, psel, pctl, phist, chan, work, ctl, hist>>

\* _consume_command: command = recv(); slot_in_command_queue.release().
\* A worker at "loop" is at the loop test or already blocked in the recv
\* that follows it, so that it may take a command after must_quit was set.
PRecv(w) ==
    /\ pwpc[w] = "loop"
    /\ pCmd[w] # <<>>
    /\ pwcur' = [pwcur EXCEPT ![w] = PipeHead(pCmd[w])]
    /\ pCmd' = [pCmd EXCEPT ![w] = PipeRest(@)]
    /\ pSem' = [pSem EXCEPT ![w] = @ + 1]
    /\ pwpc' = [pwpc EXCEPT ![w] = "exec"]
    /\ UNCHANGED <<pRes, pFault, pQuit, pEmpty, psel, pctl, phist,
                   chan, work, ctl, hist>>

\* _consume_command: the engine method returns; its value is communicated
\* if the method is marked so.
PExecOk(w) ==
    /\ pwpc[w] = "exec"
    /\ pwcur[w].fn \in PoolMethods
    /\ pRes' = IF PoolCommunicates(pwcur[w].fn)
               THEN [pRes EXCEPT ![w] = PipeSend(@, ResultBy(w, pwcur[w]))]
               ELSE pRes
    /\ pwcur' = [pwcur EXCEPT ![w] = PNoCmd]
    /\ pwpc' = [pwpc EXCEPT ![w] = "loop"]
    /\ UNCHANGED <<pCmd, pFault, pSem, pQuit, pEmpty, psel, pctl, phist,
                   chan, work, ctl, hist>>

\* _consume_command: the engine method raises; the fault is written,
\* success is False, the loop is left and the process ends.
PExecRaise(w) ==
    /\ pwpc[w] = "exec"
    /\ pwcur[w].fn \in PoolMethods
    /\ pFault' = [pFault EXCEPT ![w] = PipeSend(@, [exc |-> pwcur[w].call])]
    /\ pwcur' = [pwcur EXCEPT ![w] = PNoCmd]
    /\ pwpc' = [pwpc EXCEPT ![w] = "dead"]
    /\ UNCHANGED <<pCmd, pRes, pSem, pQuit, pEmpty, psel, pctl, phist,
                   chan, work, ctl, hist>>

\* signal_command_pipe_empty: command_pipe_empty.set(), which wakes the
\* controller if it sleeps in this Event's wait; then time.sleep(0.1)
PSignalSet(w) ==
    /\ pwpc[w] = "exec"
    /\ pwcur[w].fn = "signal_command_pipe_empty"
    /\ pEmpty' = [pEmpty EXCEPT ![w] = TRUE]
    /\ pNotified' = IF ppc = "ev_sleep" /\ pk = w THEN TRUE ELSE pNotified
    /\ pwpc' = [pwpc EXCEPT ![w] = "sleep"]
    /\ UNCHANGED <<pCmd, pRes, pFault, pSem, pQuit, pwcur, psel, ppc, pk,
                   pCall, pClosed, phist, chan, work, ctl, hist>>

\* signal_command_pipe_empty: command_pipe_empty.clear()
PSignalClear(w) ==
    /\ pwpc[w] = "sleep"
    /\ pEmpty' = [pEmpty EXCEPT ![w] = FALSE]
    /\ pwcur' = [pwcur EXCEPT ![w] = PNoCmd]
    /\ pwpc' = [pwpc EXCEPT ![w] = "loop"]
    /\ UNCHANGED <<pCmd, pRes, pFault, pSem, pQuit, psel, pctl, phist,
                   chan, work, ctl, hist>>

\* good_bye: pass
PGoodBye(w) ==
    /\ pwpc[w] = "exec"
    /\ pwcur[w].fn = "good_bye"
    /\ pwcur' = [pwcur EXCEPT ![w] = PNoCmd]
    /\ pwpc' = [pwpc EXCEPT ![w] = "loop"]
    /\ UNCHANGED <<pchan, psel, pctl, phist, chan, work, ctl, hist>>

PoolWorkerStep ==
    \E w \in Workers :
        \/ PQuitExit(w) \/ PRecv(w) \/ PExecOk(w) \/ PExecRaise(w)
        \/ PSignalSet(w) \/ PSignalClear(w) \/ PGoodBye(w)

----------------------------------------------------------------------------
(* The orchestrator on the pool: the scopes *)

\* specific: indices = list_or_int if type(list_or_int) is list
\*                     else [list_or_int]
Indices(list_or_int, isList) ==
    IF isList THEN list_or_int ELSE <<list_or_int>>

\* A frame of pStack: kind; saved is the local
\* _active_producers_indices_before of specific (nothing for
\* distribute_args); sel and mode are the selection and the mode at entry.
Frame(kind, saved) ==
    [kind |-> kind, saved |-> saved, sel |-> pSel, mode |-> pMode]

ScopesEntered == Len(pStack) + Len(pExits)

\* with pool.specific(list_or_int): up to the yield
EnterSpecific(list_or_int, isList) ==
    /\ ppc = "idle"
    /\ ScopesEntered < MaxScopes
    /\ pStack' = Append(pStack, Frame("specific", pSel))
    /\ pSel' = Indices(list_or_int, isList)
    /\ UNCHANGED <<pchan, pwork, pMode, pctl, phist, chan, work, ctl, hist>>

\* Variant of RestoredSelection: all workers are selected again.
RestoredDefault(frame) == AllIndices

\* specific, after the yield: the selection put back
RestoredSelection(frame) == frame.saved

Top == pStack[Len(pStack)]
Pop == SubSeq(pStack, 1, Len(pStack) - 1)

\* the with block of specific ends normally: the code after the yield runs
ExitSpecific ==
    /\ ppc = "idle"
    /\ pStack # <<>>
    /\ Top.kind = "specific"
    /\ pSel' = RestoredSelection(Top)
    /\ pStack' = Pop
    /\ pExits' = Append(pExits, [frame |-> Top, exc |-> FALSE,
                                 sel |-> pSel', mode |-> pMode])
    /\ UNCHANGED <<pchan, pwork, pMode, pctl, pNextCall, pSendLog, pDone,
                   pCloseTried, pCloseCalls, chan, work, ctl, hist>>

\* with pool.distribute_args(): up to the yield
EnterDistribute ==
    /\ ppc = "idle"
    /\ ScopesEntered < MaxScopes
    /\ pStack' = Append(pStack, Frame("distribute", <<>>))
    /\ pMode' = TRUE
    /\ UNCHANGED <<pchan, pwork, pSel, pctl, phist, chan, work, ctl, hist>>

\* the with block of distribute_args ends normally:
\* self._distribute_args_mode = False
ExitDistribute ==
    /\ ppc = "idle"
    /\ pStack # <<>>
    /\ Top.kind = "distribute"
    /\ pMode' = FALSE
    /\ pStack' = Pop
    /\ pExits' = Append(pExits, [frame |-> Top, exc |-> FALSE,
                                 sel |-> pSel, mode |-> pMode'])
    /\ UNCHANGED <<pchan, pwork, pSel, pctl, pNextCall, pSendLog, pDone,
                   pCloseTried, pCloseCalls, chan, work, ctl, hist>>

\* An exception passes through a with block: the generator of the
\* contextmanager gets it at its yield, has no try around the yield, and
\* ends there; the code after the yield does not run.
Unwind ==
    /\ ppc = "raising"
    /\ pStack # <<>>
    /\ pStack' = Pop
    /\ pExits' = Append(pExits, [frame |-> Top, exc |-> TRUE,
                                 sel |-> pSel, mode |-> pMode])
    /\ UNCHANGED <<pchan, pwork, pSel, pMode, pctl, pNextCall, pSendLog,
                   pDone, pCloseTried, pCloseCalls, chan, work, ctl, hist>>

\* The orchestrator catches the exception (an except clause in the block
\* it has reached) and goes on.
Catch ==
    /\ ppc = "raising"
    /\ ppc' = "idle"
    /\ UNCHANGED <<pchan, pwork, psel, pk, pCall, pNotified, pClosed, phist,
                   chan, work, ctl, hist>>

----------------------------------------------------------------------------
(* The orchestrator on the pool: a generated pool method
   (p2p_convertion_function.new_method) *)

\* _get_active_producers: [self._producers[i] for i in indices]; a
\* dispatcher is named by its index.
ActiveProducers == pSel

\* Variant of DistributedArg: every worker gets the first element.
DistributedArgFirst(arg, i) == [arg EXCEPT !.elem = 0]

\* arg[i]
DistributedArg(arg, i) == [arg EXCEPT !.elem = i]

\* Variant of Target: the first active dispatcher, whatever the position.
TargetFirst(act, k) == act[1]

\* the producer of the k-th turn of "for producer in self._active_producers"
Target(act, k) == act[k]

\* Variant of LastSend: the sending loop is left after its first turn.
LastSendAlways(act, k) == TRUE

\* the sending loop has had its last turn
LastSend(act, k) == k = Len(act)

\* The dispatcher the controller is busy with: the one of the loop position
\* in a pool call, the one of the worker index in the pool's close.
Busy == IF ppc \in {"send", "acquire", "acquire_chk", "wait"}
        THEN Target(pCall.act, pk)
        ELSE pk

\* pool.<method>(args): the mode is tested, the active list is built
PoolCall(fn) ==
    /\ ppc = "idle"
    /\ pNextCall <= MaxPoolCalls
    /\ pCall' = [id |-> pNextCall, fn |-> fn, arg |-> UserArg(pNextCall),
                 act |-> ActiveProducers, got |-> <<>>]
    /\ pNextCall' = pNextCall + 1
    /\ ppc' = "send"
    /\ pk' = 1
    /\ UNCHANGED <<pchan, pwork, psel, pNotified, pClosed, pSendLog, pDone,
                   pCloseTried, pCloseCalls, pExits, chan, work, ctl, hist>>

\* the command of the call for the producer at 0-based position i
CommandAt(i) ==
    [fn |-> pCall.fn, call |-> pCall.id,
     arg |-> IF pMode THEN DistributedArg(pCall.arg, i) ELSE pCall.arg]

\* getattr(producer, name)(..., blocking=False): _send_command writes the
\* command to the pipe
PoolSend ==
    /\ ppc = "send"
    /\ pCmd' = [pCmd EXCEPT ![Busy] = PipeSend(@, CommandAt(pk - 1))]
    /\ pSendLog' = Append(pSendLog, [w |-> Busy, cmd |-> CommandAt(pk - 1)])
    /\ ppc' = "acquire"
    /\ UNCHANGED <<pRes, pFault, pSem, pQuit, pEmpty, pwork, psel, pk, pCall,
                   pNotified, pClosed, pNextCall, pDone, pCloseTried,
                   pCloseCalls, pExits, chan, work, ctl, hist>>

\* The pool call ends: out is "none" (nothing returned), "list" or "raised".
Ended(out, ret) ==
    [call |-> pCall.id, fn |-> pCall.fn, sel |-> pCall.act, mode |-> pMode,
     out |-> out, ret |-> ret]

\* _send_command: the acquire succeeds and the generated producer method
\* returns (blocking=False).  After the last turn of the sending loop a
\* returning method goes on to the list of _wait_for_answer, any other
\* method returns None.
PoolAcquireOk ==
    /\ ppc = "acquire"
    /\ CanAcquire(pSem[Busy])
    /\ pSem' = [pSem EXCEPT ![Busy] = @ - 1]
    /\ IF ~LastSend(pCall.act, pk)
       THEN /\ ppc' = "send"
            /\ pk' = pk + 1
            /\ UNCHANGED <<pCall, pDone>>
       ELSE IF PoolCommunicates(pCall.fn)
       THEN /\ ppc' = "wait"
            /\ pk' = 1
            /\ UNCHANGED <<pCall, pDone>>
       ELSE /\ ppc' = "idle"
            /\ pDone' = Append(pDone, Ended("none", <<>>))
            /\ pCall' = NoCall
            /\ UNCHANGED pk
    /\ UNCHANGED <<pCmd, pRes, pFault, pQuit, pEmpty, pwork, psel, pNotified,
                   pClosed, pNextCall, pSendLog, pCloseTried, pCloseCalls,
                   pExits, chan, work, ctl, hist>>

\* _wait_for_answer of the k-th active producer: poll finds a value, recv
\* takes it; after the last one the list is returned.
PoolWaitAnswer ==
    /\ ppc = "wait"
    /\ pRes[Busy] # <<>>
    /\ pRes' = [pRes EXCEPT ![Busy] = PipeRest(@)]
    /\ IF pk < Len(pCall.act)
       THEN /\ pCall' = [pCall EXCEPT !.got = Append(@, AnswerOf(pRes[Busy]))]
            /\ pk' = pk + 1
            /\ UNCHANGED <<ppc, pDone>>
       ELSE /\ ppc' = "idle"
            /\ pDone' = Append(pDone,
                    Ended("list", Append(pCall.got, AnswerOf(pRes[Busy]))))
            /\ pCall' = NoCall
            /\ UNCHANGED pk
    /\ UNCHANGED <<pCmd, pFault, pSem, pQuit, pEmpty, pwork, psel, pNotified,
                   pClosed, pNextCall, pSendLog, pCloseTried, pCloseCalls,
                   pExits, chan, work, ctl, hist>>

\* the acquire loops of _send_command: of a pool call, of the signal and
\* of good_bye in close
AcquirePcs == {"acquire", "c_acquire", "c_bye_acq"}

\* where _check_consumer_alive is called from each of them
Checking(pc) ==
    CASE pc = "acquire" -> "acquire_chk"
      [] pc = "c_acquire" -> "c_acquire_chk"
      [] pc = "c_bye_acq" -> "c_bye_acq_chk"

\* _send_command: semaphore.acquire(block=False, timeout=0.1) fails, the
\* body of the while loop is entered
PoolAcquireFail ==
    /\ ppc \in AcquirePcs
    /\ ~CanAcquire(pSem[Busy])
    /\ ppc' = Checking(ppc)
    /\ UNCHANGED <<pchan, pwork, psel, pk, pCall, pNotified, pClosed, phist,
                   chan, work, ctl, hist>>

\* _check_consumer_alive finds the worker alive: back to the acquire
PoolCheckAlive ==
    /\ \E pc \in AcquirePcs : ppc = Checking(pc) /\ ppc' = pc
    /\ PAlive(Busy)
    /\ UNCHANGED <<pchan, pwork, psel, pk, pCall, pNotified, pClosed, phist,
                   chan, work, ctl, hist>>

\* The controller is at a call of _check_consumer_alive: in the acquire
\* loop of _send_command after a failed acquire, or in the poll loop of
\* _wait_for_answer with no value in the results pipe (a worker that is
\* waited on has no later command to die on, so that the results pipe is
\* still empty when the worker is found dead).
InCheckLoop ==
    \/ \E pc \in AcquirePcs : ppc = Checking(pc)
    \/ ppc = "wait" /\ pRes[Busy] = <<>>

\* _check_consumer_alive finds the worker dead: _closed = True, then
\* exception_pipe_out.recv() and raise SimulationConsumerFailed, which
\* leaves the pool call or the pool's close; the recv blocks for ever when
\* the fault pipe is empty.
PoolCheckDead ==
    /\ InCheckLoop
    /\ ~PAlive(Busy)
    /\ pClosed' = [pClosed EXCEPT ![Busy] = TRUE]
    /\ IF pFault[Busy] # <<>>
       THEN /\ pFault' = [pFault EXCEPT ![Busy] = AfterFaultRecv(@)]
            /\ ppc' = "raising"
            /\ pDone' = Append(pDone, Ended("raised", pCall.got))
            /\ pCall' = NoCall
       ELSE /\ ppc' = "hung"
            /\ UNCHANGED <<pFault, pDone, pCall>>
    /\ UNCHANGED <<pCmd, pRes, pSem, pQuit, pEmpty, pwork, psel, pk,
                   pNotified, pNextCall, pSendLog, pCloseTried, pCloseCalls,
                   pExits, chan, work, ctl, hist>>

----------------------------------------------------------------------------
(* The orchestrator on the pool: close *)

\* SimulationPool.close is called: for producer in self._producers, all of
\* them whatever the selection is
PoolClose ==
    /\ ppc = "idle"
    /\ pCloseCalls < MaxPoolCloses
    /\ pCloseCalls' = pCloseCalls + 1
    /\ pCall' = [id |-> 0, fn |-> "close", arg |-> NoArg,
                 act |-> AllIndices, got |-> <<>>]
    /\ ppc' = "c_next"
    /\ pk' = 0
    /\ UNCHANGED <<pchan, pwork, psel, pNotified, pClosed, pNextCall,
                   pSendLog, pDone, pCloseTried, pExits,
                   chan, work, ctl, hist>>

\* producer.close() on a dispatcher already closed: nothing is done
PCloseNoop ==
    /\ ppc = "c_next"
    /\ pk \in Workers
    /\ pClosed[pk]
    /\ pCloseTried' = pCloseTried \cup {pk}
    /\ pk' = pk + 1
    /\ UNCHANGED <<pchan, pwork, psel, ppc, pCall, pNotified, pClosed,
                   pNextCall, pSendLog, pDone, pCloseCalls, pExits,
                   chan, work, ctl, hist>>

\* producer.close(), the worker is alive: _wait_command_pipe_empty sends
\* signal_command_pipe_empty
PCloseStart ==
    /\ ppc = "c_next"
    /\ pk \in Workers
    /\ ~pClosed[pk]
    /\ PAlive(pk)
    /\ pCloseTried' = pCloseTried \cup {pk}
    /\ pCmd' = [pCmd EXCEPT ![pk] =
                   PipeSend(@, [fn |-> "signal_command_pipe_empty",
                                call |-> 0, arg |-> NoArg])]
    /\ ppc' = "c_acquire"
    /\ UNCHANGED <<pRes, pFault, pSem, pQuit, pEmpty, pwork, psel, pk, pCall,
                   pNotified, pClosed, pNextCall, pSendLog, pDone,
                   pCloseCalls, pExits, chan, work, ctl, hist>>

\* producer.close(), the worker is not alive: _closed = True, join
PCloseDeadWorker ==
    /\ ppc = "c_next"
    /\ pk \in Workers
    /\ ~pClosed[pk]
    /\ ~PAlive(pk)
    /\ pCloseTried' = pCloseTried \cup {pk}
    /\ pClosed' = [pClosed EXCEPT ![pk] = TRUE]
    /\ pk' = pk + 1
    /\ UNCHANGED <<pchan, pwork, psel, ppc, pCall, pNotified, pNextCall,
                   pSendLog, pDone, pCloseCalls, pExits,
                   chan, work, ctl, hist>>

\* _send_command of the signal or of good_bye: the acquire succeeds
PCloseAcquire ==
    /\ ppc \in {"c_acquire", "c_bye_acq"}
    /\ CanAcquire(pSem[pk])
    /\ pSem' = [pSem EXCEPT ![pk] = @ - 1]
    /\ ppc' = IF ppc = "c_acquire" THEN "c_evwait" ELSE "c_mark"
    /\ UNCHANGED <<pCmd, pRes, pFault, pQuit, pEmpty, pwork, psel, pk, pCall,
                   pNotified, pClosed, phist, chan, work, ctl, hist>>

\* command_pipe_empty.wait() is entered: it returns at once if the flag is
\* set, else the controller sleeps until a set() notifies it
PCloseEvWait ==
    /\ ppc = "c_evwait"
    /\ ppc' = OnEventWait(pEmpty[pk])
    /\ pNotified' = FALSE
    /\ UNCHANGED <<pchan, pwork, psel, pk, pCall, pClosed, phist,
                   chan, work, ctl, hist>>

PCloseEvWake ==
    /\ ppc = "ev_sleep"
    /\ pNotified
    /\ ppc' = "set_quit"
    /\ UNCHANGED <<pchan, pwork, psel, pk, pCall, pNotified, pClosed, phist,
                   chan, work, ctl, hist>>

\* must_quit.set()
PCloseSetQuit ==
    /\ ppc = "set_quit"
    /\ pQuit' = [pQuit EXCEPT ![pk] = TRUE]
    /\ ppc' = "c_bye"
    /\ UNCHANGED <<pCmd, pRes, pFault, pSem, pEmpty, pwork, psel, pk, pCall,
                   pNotified, pClosed, phist, chan, work, ctl, hist>>

\* self.good_bye(): _send_command writes it to the pipe
PCloseSendBye ==
    /\ ppc = "c_bye"
    /\ pCmd' = [pCmd EXCEPT ![pk] =
                   PipeSend(@, [fn |-> "good_bye", call |-> 0,
                                arg |-> NoArg])]
    /\ ppc' = "c_bye_acq"
    /\ UNCHANGED <<pRes, pFault, pSem, pQuit, pEmpty, pwork, psel, pk, pCall,
                   pNotified, pClosed, phist, chan, work, ctl, hist>>

\* self._closed = True
PCloseMark ==
    /\ ppc = "c_mark"
    /\ pClosed' = [pClosed EXCEPT ![pk] = TRUE]
    /\ ppc' = "c_join"
    /\ UNCHANGED <<pchan, pwork, psel, pk, pCall, pNotified, phist,
                   chan, work, ctl, hist>>

\* self._consumer.join() returns when the worker has exited; the loop of
\* the pool's close goes to the next dispatcher
PCloseJoin ==
    /\ ppc = "c_join"
    /\ ~PAlive(pk)
    /\ ppc' = "c_next"
    /\ pk' = pk + 1
    /\ UNCHANGED <<pchan, pwork, psel, pCall, pNotified, pClosed, phist,
                   chan, work, ctl, hist>>

\* the loop of the pool's close is over: close returns
PoolCloseReturn ==
    /\ ppc = "c_next"
    /\ pk = NWorkers
    /\ ppc' = "idle"
    /\ pDone' = Append(pDone, Ended("none", <<>>))
    /\ pCall' = NoCall
    /\ UNCHANGED <<pchan, pwork, psel, pk, pNotified, pClosed, pNextCall,
                   pSendLog, pCloseTried, pCloseCalls, pExits,
                   chan, work, ctl, hist>>

PoolControllerStep ==
    \/ \E w \in Workers : EnterSpecific(w, FALSE)
    \/ EnterSpecific(Descending, TRUE)
    \/ ExitSpecific \/ EnterDistribute \/ ExitDistribute
    \/ Unwind \/ Catch
    \/ \E fn \in PoolMethods : PoolCall(fn)
    \/ PoolSend \/ PoolAcquireOk \/ PoolAcquireFail \/ PoolCheckAlive
    \/ PoolWaitAnswer \/ PoolCheckDead
    \/ PoolClose \/ PCloseNoop \/ PCloseStart \/ PCloseDeadWorker
    \/ PCloseAcquire \/ PCloseEvWait \/ PCloseEvWake \/ PCloseSetQuit
    \/ PCloseSendBye \/ PCloseMark \/ PCloseJoin \/ PoolCloseReturn

PoolNext == PoolWorkerStep \/ PoolControllerStep

\* The pool on its own: the standalone dispatcher of Spec stays as
\* constructed.
PoolSpec == Init /\ [][PoolNext]_vars

----------------------------------------------------------------------------
(* Properties *)

\* Command id was sent before close was called (ids number the sends).
SentBeforeClose(id) == closeSigId # 0 /\ id < closeSigId

\* The worker has finished executing command id without raising.
Finished(id) ==
    /\ \E i \in 1..Len(execLog) : execLog[i] = id
    /\ wRaisedOn # id
    /\ wcur.id # id

\* C1: the i-th value returned by _wait_for_answer is the result of the i-th
\* returns-a-value command sent, whatever else was sent in between; no wait
\* returns a value no command produced.
C1_AnswersInSendOrder ==
    /\ Len(answers) <= Len(sentRet)
    /\ \A i \in 1..Len(answers) :
          answers[i].res =
              ResultOf([fn |-> "get_simulation_timestep", id |-> sentRet[i]])

\* C1 happens: two returns-a-value commands with a non-returning one between
\* them were all sent before the first wait returned, the worker raised on
\* none, and two waits returned.
C1_Witness ==
    /\ sentRet = <<1, 3>>
    /\ Len(answers) = 2
    /\ answers[1].sent = 2
    /\ wRaisedOn = 0

\* C2: the fault pipe is written at most once in the worker's life and not
\* at all while the engine has not raised; once the engine has raised on a
\* command, that command stays the last one executed; and a worker that
\* got through its except clause has written exactly one fault.
C2_OneFaultThenStop ==
    /\ faultsWritten <= 1
    /\ (wRaisedOn = 0 => faultsWritten = 0)
    /\ (wRaisedOn # 0 => execLog[Len(execLog)] = wRaisedOn)
    /\ (wRaisedOn # 0 /\ wpc \in {"shutdown", "dead"} /\ ~killed
            => faultsWritten = 1)

\* C2 happens: the engine raised, the worker exited by itself with commands
\* sent after the failing one still queued.
C2_Witness ==
    /\ wRaisedOn # 0
    /\ wpc = "dead"
    /\ ~killed
    /\ \E i \in 1..Len(cmdPipe) : cmdPipe[i].id > wRaisedOn
    /\ faultsWritten = 1

C4_DeadWorkerCallNeverBlocks ==
    (cop \in {"send", "wait"} /\ ~IsAlive /\ faultsWritten = 0)
        => ENABLED ControllerStep

\* C5: the command pipe never holds more than Capacity commands.
C5_PipeWithinCapacity == Len(cmdPipe) <= Capacity

\* C6: no _send_command returns while more than Capacity - 1 earlier sends
\* are still not dequeued: the sends that returned never outnumber the
\* commands dequeued by more than Capacity.
C6_SendWaitsForDequeue == nSendReturned - nDequeued <= Capacity

\* C6 happens: Capacity sends returned, the worker is alive and has dequeued
\* nothing, and the next send is in its acquire loop.
C6_Witness ==
    /\ nSendReturned = Capacity
    /\ nDequeued = 0
    /\ IsAlive
    /\ cop = "send"
    /\ cpc = "check_alive"

\* C7: the value of slot_in_command_queue stays within 0..Capacity.
C7_SemaphoreWithinCapacity == sem \in 0..Capacity

\* C8: while must_quit is set, every command sent before close was called
\* has been dequeued and executed to its end.
C8_QuitOnlyAfterDrain ==
    mustQuit =>
        /\ closeSigId # 0
        /\ \A id \in 1..(closeSigId - 1) : Finished(id)
        /\ \A i \in 1..Len(cmdPipe) : ~SentBeforeClose(cmdPipe[i].id)

\* C8 happens: close was called with two commands pending and has set
\* must_quit.
C8_Witness == mustQuit /\ closePending >= 2

\* C9: a close() made after a close() ran to its end changes nothing of the
\* channel, the worker or the dispatcher (it is back at once, _closed still
\* set) and raises nothing.
C9_CloseIdempotent ==
    [][(nCloseCalls' = nCloseCalls + 1 /\ closeDone)
          => /\ UNCHANGED <<chan, work, ctl, cRaised>>
             /\ closed]_vars

\* C9 happens: a second close was made after the first ran to its end.
C9_Witness == closeDone /\ nCloseCalls >= 2

\* The worker still has the set() of close's signal command ahead of it.
SignalAhead ==
    \/ \E i \in 1..Len(cmdPipe) : cmdPipe[i].id = closeSigId
    \/ wcur.id = closeSigId /\ wpc \in {"release", "exec"}

\* C10: when the controller sleeps in close's wait on command_pipe_empty and
\* the worker is alive and has not faulted, the set() that wakes it is still
\* to come.
C10_CloseWaitSeesFlag ==
    (cpc = "ev_sleep" /\ ~cnotified /\ IsAlive /\ wRaisedOn = 0)
        => SignalAhead

\* C11: once close has seen the empty flag (it is about to set must_quit),
\* the sequence set must_quit, send good_bye, join always ends: the worker
\* process exits and close returns.
C11_QuitHandshakeEnds == (cpc = "set_quit") ~> (closeDone /\ ~IsAlive)

\* C11 happens, interleaving (b): the worker tested must_quit before it was
\* set, dequeued and executed good_bye, then left its loop, and close
\* returned.
C11_Witness ==
    /\ closeDone
    /\ mustQuit
    /\ ~killed
    /\ \E i \in 1..Len(execLog) : execLog[i] = closeSigId + 1

\* C11 happens, interleaving (a): the worker tested must_quit after it was
\* set and left its loop with good_bye still in the command pipe.
C11_WitnessNotDequeued ==
    /\ closeDone
    /\ mustQuit
    /\ ~killed
    /\ \E i \in 1..Len(cmdPipe) : cmdPipe[i].fn = "good_bye"

\* Capacity units the worker has released: the semaphore started at Capacity
\* and lost one unit for every send that returned.
Released == sem - Capacity + nSendReturned

\* C19: the worker executes the commands in the order they were sent, none
\* skipped (ids number the sends); when it holds a command, every command
\* sent earlier has finished; and a command's capacity unit is released
\* after the dequeue and before the execution.
C19_ExecInSendOrder ==
    /\ \A i \in 1..Len(execLog) : execLog[i] = i
    /\ (wcur # NoCmd /\ wRaisedOn = 0
            => \A id \in 1..(wcur.id - 1) : Finished(id))
    /\ (wpc = "release" => Released = nDequeued - 1)
    /\ (wpc \in {"exec", "reply", "fault", "sleep"} => Released = nDequeued)
    /\ Len(execLog) <= Released

\* C19 happens: three commands were sent, the first has finished, the
\* second was dequeued, its unit released, and it is about to execute while
\* the third waits in the pipe.
C19_Witness ==
    /\ execLog = <<1>>
    /\ wpc = "exec"
    /\ wcur.id = 2
    /\ Len(cmdPipe) = 1
    /\ cmdPipe[1].id = 3

\* Command id is a returns-a-value command.
IsRet(id) == \E k \in 1..Len(sentRet) : sentRet[k] = id

\* Everything the worker has written to the results pipe, in order: what
\* the controller has taken out, then what is still in it.
ResultsWritten == [i \in 1..Len(answers) |-> answers[i].res] \o resPipe

\* The returns-a-value commands the worker has executed without raising and
\* got through (the reply included), in execution order.
RetExecuted ==
    SelectSeq(execLog, LAMBDA id : /\ IsRet(id)
                                   /\ id # wRaisedOn
                                   /\ ~(wpc = "reply" /\ wcur.id = id))

\* ... and the results they produce.
ResultsDue ==
    [i \in 1..Len(RetExecuted) |->
        ResultOf([fn |-> "get_simulation_timestep", id |-> RetExecuted[i]])]

\* C20, the pipe: it holds one value per returns-a-value command executed
\* without raising and nothing else.  (A worker killed between the return
\* of the method and the write of its value leaves that one value out.)
C20_OneResultPerReturningCommand ==
    /\ Len(ResultsWritten) <= Len(ResultsDue)
    /\ \A i \in 1..Len(ResultsWritten) : ResultsWritten[i] = ResultsDue[i]
    /\ (~killed => Len(ResultsWritten) = Len(ResultsDue))
    /\ Len(ResultsDue) - Len(ResultsWritten) <= 1

\* C20, the blocking call: a generated method of a returns-a-value command
\* called with blocking=True when no earlier result is unconsumed returns the
\* result of its own command, which the worker has executed by then.
C20_BlockingCallOwnResult ==
    (cpc = "poll" /\ cwait /\ Len(answers') = Len(answers) + 1
        /\ Len(answers') = Len(sentRet))
    => /\ answers'[Len(answers')].res =
            ResultOf([fn |-> "get_simulation_timestep", id |-> nextId - 1])
       /\ \E i \in 1..Len(execLog) : execLog[i] = nextId - 1

\* C20, the non-returning call: the generated method of a method that does
\* not communicate its value returns as soon as _send_command does, with no
\* answer taken, whatever blocking is.
C20_NonReturningCallDoesNotWait ==
    (cop = "send" /\ ~IsRet(nextId - 1)
        /\ nSendReturned' = nSendReturned + 1)
    => cpc' = "idle" /\ answers' = answers /\ resPipe' = resPipe

\* C20: the three parts together.
C20_ResultsAndBlocking ==
    /\ []C20_OneResultPerReturningCommand
    /\ [][C20_BlockingCallOwnResult]_vars
    /\ [][C20_NonReturningCallDoesNotWait]_vars

\* C20 happens: a blocking returns-a-value call has returned its own result,
\* then a non-returning call has returned while the worker has not executed
\* its command.
C20_Witness ==
    /\ sentRet = <<1>>
    /\ answers = <<[res |-> ResultOf([fn |-> "get_simulation_timestep",
                                      id |-> 1]), sent |-> 1]>>
    /\ nextId = 3
    /\ cpc = "idle"
    /\ execLog = <<1>>
    /\ Len(cmdPipe) = 1

----------------------------------------------------------------------------
(* Properties of the pool *)

\* the workers of a selection list
Selected(sel) == {sel[i] : i \in 1..Len(sel)}

\* the places of pSendLog where pool call c sent a command to worker w
SendsTo(c, w) ==
    {i \in 1..Len(pSendLog) : pSendLog[i].cmd.call = c /\ pSendLog[i].w = w}

\* the workers pool call c has sent to, in the order of the sends
SendOrder(c) ==
    LET mine == SelectSeq(pSendLog, LAMBDA e : e.cmd.call = c)
    IN  [i \in 1..Len(mine) |-> mine[i].w]

\* the generated-method calls that ended by returning
Returned == {i \in 1..Len(pDone) :
                pDone[i].fn \in PoolMethods /\ pDone[i].out # "raised"}

\* C12: a pool call that returned, made with all workers selected and
\* distribute-args mode off, has sent every worker exactly one command, all
\* with the argument object of the call; a returns-a-value method gave back
\* the list of NWorkers results whose i-th element worker i produced for
\* this call, any other method gave back no list.
C12_PoolBroadcast ==
    \A n \in Returned :
        LET d == pDone[n] IN
        (d.sel = AllIndices /\ ~d.mode) =>
            /\ \A w \in Workers :
                /\ Cardinality(SendsTo(d.call, w)) = 1
                /\ \A i \in SendsTo(d.call, w) :
                    pSendLog[i].cmd = [fn |-> d.fn, call |-> d.call,
                                       arg |-> UserArg(d.call)]
            /\ IF PoolCommunicates(d.fn)
               THEN /\ d.out = "list"
                    /\ d.ret = [i \in 1..NWorkers |->
                                   ResultBy(i - 1, [call |-> d.call])]
               ELSE d.out = "none" /\ d.ret = <<>>

\* C12 happens: a returns-a-value call and a non-returning call have both
\* returned, each made with all workers selected and the mode off.
C12_Witness ==
    /\ Len(pDone) = 2
    /\ pDone[1].sel = AllIndices /\ ~pDone[1].mode /\ pDone[1].out = "list"
    /\ pDone[2].sel = AllIndices /\ ~pDone[2].mode /\ pDone[2].out = "none"
    /\ pDone[2].fn = "set_joint_forces"

\* C13: a pool call that returned, made in distribute-args mode, has sent
\* exactly one command to each selected worker and none to any other, and
\* the worker at (0-based) position i of the selection list got element i
\* of the argument: with all workers selected worker i gets element i, with
\* a narrowed or reordered selection the position decides, not the index.
C13_ArgumentDistribution ==
    \A n \in Returned :
        LET d == pDone[n] IN
        d.mode =>
            /\ \A k \in 1..Len(d.sel) :
                /\ Cardinality(SendsTo(d.call, d.sel[k])) = 1
                /\ \A i \in SendsTo(d.call, d.sel[k]) :
                    pSendLog[i].cmd.arg = [call |-> d.call, elem |-> k - 1]
            /\ \A w \in Workers \ Selected(d.sel) : SendsTo(d.call, w) = {}

\* C13 happens: inside distribute_args a call with all workers selected has
\* returned, and then one under specific([N-1, ..., 0]), where every
\* worker's position differs from its index.
C13_Witness ==
    /\ Len(pDone) = 2
    /\ pDone[1].mode /\ pDone[1].sel = AllIndices /\ pDone[1].out # "raised"
    /\ pDone[2].mode /\ pDone[2].sel = Descending /\ pDone[2].out # "raised"
    /\ pDone[2].fn \in PoolMethods

\* C14, the frame: a step the controller takes inside a generated pool
\* method changes no channel, semaphore or flag of a worker that is not in
\* the selection.  (A step that leaves the positions of all workers as they
\* are is a step of the controller.)
C14_OthersUntouched ==
    (pwpc' = pwpc /\ pCall.fn \in PoolMethods)
    => \A w \in Workers \ Selected(pCall.act) :
        /\ pCmd'[w] = pCmd[w] /\ pRes'[w] = pRes[w]
        /\ pFault'[w] = pFault[w] /\ pSem'[w] = pSem[w]
        /\ pQuit'[w] = pQuit[w] /\ pEmpty'[w] = pEmpty[w]
        /\ pClosed'[w] = pClosed[w]

\* C14, the sends: a pool call sends to selected workers only.
C14_SendsToSelectedOnly ==
    \A n \in 1..Len(pDone) : \A w \in Workers \ Selected(pDone[n].sel) :
        pDone[n].fn \in PoolMethods => SendsTo(pDone[n].call, w) = {}

\* C14, the exit: a specific scope that is left normally leaves the
\* selection that was in force when it was entered.
C14_RestoredOnNormalExit ==
    \A n \in 1..Len(pExits) :
        (pExits[n].frame.kind = "specific" /\ ~pExits[n].exc)
            => pExits[n].sel = pExits[n].frame.sel

\* C14: the three parts together.
C14_ScopedSelection ==
    /\ [][C14_OthersUntouched]_vars
    /\ []C14_SendsToSelectedOnly
    /\ []C14_RestoredOnNormalExit

\* C14 happens: a call made inside specific(N-1) nested in specific(0) has
\* returned, worker 0 has been sent nothing and still has all its capacity,
\* and the inner scope was left normally.
C14_Witness ==
    /\ Len(pDone) = 1 /\ pDone[1].out = "list"
    /\ pDone[1].sel = <<NWorkers - 1>>
    /\ pCmd[0] = <<>> /\ pSem[0] = Capacity /\ pSendLog # <<>>
    /\ \A i \in 1..Len(pSendLog) : pSendLog[i].w # 0
    /\ Len(pExits) = 1 /\ ~pExits[1].exc
    /\ pExits[1].frame.sel = <<0>> /\ pSel = <<0>>

\* C15: a specific scope that is left by an exception leaves the selection
\* that was in force when it was entered.
C15_RestoredOnException ==
    \A n \in 1..Len(pExits) :
        (pExits[n].frame.kind = "specific" /\ pExits[n].exc)
            => pExits[n].sel = pExits[n].frame.sel

\* C16: every exit from a distribute_args scope, normal or by an exception,
\* leaves the mode flag as it was when the scope was entered.
C16_ModeRestored ==
    \A n \in 1..Len(pExits) :
        pExits[n].frame.kind = "distribute"
            => pExits[n].mode = pExits[n].frame.mode

\* C17: when the pool's close has ended, by returning or by raising, it has
\* called close on every dispatcher of the pool.
C17_CloseTriesAll ==
    \A n \in 1..Len(pDone) :
        pDone[n].fn = "close" => pCloseTried = Workers

\* C18: in a generated pool method no answer is taken while the sending
\* loop runs; when the controller waits, every selected worker has been
\* sent the command of the call, in the order of the selection, and the
\* answers taken so far were taken from the dispatchers in that same order.
C18_SendAllThenWaitInOrder ==
    /\ ppc \in {"send", "acquire", "acquire_chk"} => pCall.got = <<>>
    /\ ppc = "wait" =>
        /\ SendOrder(pCall.id) = pCall.act
        /\ Len(pCall.got) = pk - 1
        /\ \A i \in 1..Len(pCall.got) :
            pCall.got[i].by = SendOrder(pCall.id)[i]

\* C18 happens: all workers are selected, the first has answered, the
\* controller waits on the second.
C18_Witness ==
    /\ ppc = "wait"
    /\ pCall.act = AllIndices
    /\ pk = 2
    /\ Len(pCall.got) = 1

----------------------------------------------------------------------------
(* Results and faults, the handshake and a dying worker *)

\* C21: _wait_for_answer raises SimulationConsumerFailed only when the
\* results pipe is empty: a result the worker wrote before it faulted is
\* handed over by a wait before any wait raises.
C21_RaiseOnlyWhenDrained ==
    [][(cop = "wait" /\ cpc = "recv_fault" /\ cRaised' # cRaised)
        => resPipe = <<>>]_vars

\* A wait entered when the results pipe holds a value returns that value:
\* the poll cannot time out, since only the controller takes values out.
C21_WaitOnResultReturns ==
    [][(cop = "wait" /\ cpc = "poll" /\ resPipe # <<>>)
        => (cpc' = "poll" \/ Len(answers') = Len(answers) + 1)]_vars

\* C22: every list a returns-a-value pool call gives back holds, at each
\* position, the result the selected worker at that position produced for
\* this very call: no result of an earlier fan-out, left in a results pipe
\* when that fan-out ended, is handed over in its place.
C22_NoStaleResult ==
    \A n \in Returned :
        LET d == pDone[n] IN
        d.out = "list" =>
            /\ Len(d.ret) = Len(d.sel)
            /\ \A i \in 1..Len(d.sel) :
                d.ret[i] = ResultBy(d.sel[i], [call |-> d.call])

\* C23: close is never stuck in its handshake on a worker that was alive
\* when close tested is_alive and then raised on a command sent before the
\* signal (so that it exited without executing the signal): with the worker
\* gone nothing but the controller can move, and the controller can.  (The
\* commands in the pipe when close sent the signal are the closePending
\* ones numbered just below closeSigId.)
C23_CloseNotStuckOnDeadWorker ==
    (/\ cop = "close_signal"
     /\ ~IsAlive /\ ~killed
     /\ wRaisedOn # 0
     /\ wRaisedOn < closeSigId
     /\ wRaisedOn >= closeSigId - closePending)
        => ENABLED ControllerStep

============================================================================
